---- MODULE Spec2Model ----
(***************************************************************************)
(* Model of the Telegram MCP server (src/src/telegram/index.ts): startup   *)
(* in main(), the call-tool and list-tools request handlers, and the       *)
(* TelegramClient methods with their two suspension points (await fetch,   *)
(* response.json()).  The JavaScript event loop runs every handler from    *)
(* one suspension point to the next without interleaving, so each action   *)
(* below is one such run.                                                  *)
(***************************************************************************)
EXTENDS Integers, Sequences, FiniteSets, TLC

VARIABLES
    env,            \* process.env, restricted to TELEGRAM_BOT_TOKEN
    procState,      \* "start" | "connecting" | "running" | "exited"
    exitCode,       \* <<>> while the process lives, <<code>> after process.exit
    stderr,         \* the diagnostics written with console.error (first argument)
    handlers,       \* request methods that have a handler registered
    connected,      \* server.connect(transport) has been called
    baseUrl,        \* TelegramClient.baseUrl ("" before construction)
    calls,          \* the call-tool invocations, in arrival order
    listResponse    \* <<>> or <<the last list-tools result>>

vars == <<env, procState, exitCode, stderr, handlers, connected, baseUrl,
          calls, listResponse>>

\* Number of call-tool requests a run of the model receives.
MaxCalls == 2

-----------------------------------------------------------------------------
(* JavaScript values, tagged by type.                                      *)

Undefined == [t |-> "undefined"]
JNull == [t |-> "null"]
JStr(s) == [t |-> "str", s |-> s]
JNum(n) == [t |-> "num", n |-> n]
JBool(b) == [t |-> "bool", b |-> b]
\* An object is its own properties in insertion order: <<key, value>> pairs.
JObj(f) == [t |-> "obj", f |-> f]

\* Property read on an argument bag: a missing key reads as undefined.
Prop(obj, key) == IF key \in DOMAIN obj THEN obj[key] ELSE Undefined

\* ToBoolean, as applied by `if (x)` and `!x`.
Truthy(v) ==
    CASE v.t = "undefined" -> FALSE
      [] v.t = "null" -> FALSE
      [] v.t = "str" -> v.s # ""
      [] v.t = "num" -> v.n # 0
      [] v.t = "bool" -> v.b
      [] v.t = "obj" -> TRUE

Digit(d) == SubSeq("0123456789", d + 1, d + 1)

RECURSIVE Digits(_)
Digits(n) == IF n < 10 THEN Digit(n) ELSE Digits(n \div 10) \o Digit(n % 10)

\* Number.prototype.toString() on an integer: its decimal numeral.
NumberToString(n) == IF n < 0 THEN "-" \o Digits(0 - n) ELSE Digits(n)

RECURSIVE EscapeString(_)
EscapeString(s) ==
    IF s = "" THEN ""
    ELSE LET c == SubSeq(s, 1, 1)
             e == IF c = "\"" THEN "\\\""
                  ELSE IF c = "\\" THEN "\\\\"
                  ELSE c
         IN  e \o EscapeString(SubSeq(s, 2, Len(s)))

QuoteString(s) == "\"" \o EscapeString(s) \o "\""

\* JSON.stringify on a value that is not undefined.  Properties whose value
\* is undefined are left out of an object.
RECURSIVE JSONstringify(_), StringifyMembers(_, _)
JSONstringify(v) ==
    CASE v.t = "null" -> "null"
      [] v.t = "str" -> QuoteString(v.s)
      [] v.t = "num" -> NumberToString(v.n)
      [] v.t = "bool" -> (IF v.b THEN "true" ELSE "false")
      [] v.t = "obj" -> "{" \o StringifyMembers(v.f, TRUE) \o "}"

StringifyMembers(f, first) ==
    IF f = <<>> THEN ""
    ELSE IF f[1][2].t = "undefined" THEN StringifyMembers(Tail(f), first)
    ELSE (IF first THEN "" ELSE ",")
         \o QuoteString(f[1][1]) \o ":" \o JSONstringify(f[1][2])
         \o StringifyMembers(Tail(f), FALSE)

\* The string conversion URLSearchParams applies to a record's values.
ToUSVString(v) ==
    CASE v.t = "undefined" -> "undefined"
      [] v.t = "null" -> "null"
      [] v.t = "str" -> v.s
      [] v.t = "num" -> NumberToString(v.n)
      [] v.t = "bool" -> (IF v.b THEN "true" ELSE "false")
      [] v.t = "obj" -> "[object Object]"

\* Thrown values.
Error(message) == [instanceofError |-> TRUE, name |-> "Error", message |-> message]
TypeError(message) == [instanceofError |-> TRUE, name |-> "TypeError", message |-> message]
SyntaxError(message) == [instanceofError |-> TRUE, name |-> "SyntaxError", message |-> message]

-----------------------------------------------------------------------------
(* The tool registry.                                                      *)

sendMessageTool ==
    [name |-> "telegram_send_message",
     description |-> "Sends a text message",
     inputSchema |-> [type |-> "object",
                      properties |-> {"chat_id", "text", "parse_mode"},
                      required |-> <<"chat_id", "text">>]]

setMessageReactionTool ==
    [name |-> "telegram_set_message_reaction",
     description |-> "Sets or updates a reaction to a message",
     inputSchema |-> [type |-> "object",
                      properties |-> {"chat_id", "message_id", "reaction", "is_big"},
                      required |-> <<"chat_id", "message_id">>]]

\* Variant: the second descriptor is left out of the list.
ListToolsResult_One == [tools |-> <<sendMessageTool>>]

\* The result of the list-tools handler.
ListToolsResult == [tools |-> <<sendMessageTool, setMessageReactionTool>>]

-----------------------------------------------------------------------------
(* TelegramClient.                                                         *)

\* constructor(botToken)
ClientBaseUrl(botToken) == "https://api.telegram.org/bot" \o botToken

\* URLSearchParams is an ordered list of <<name, value>> string pairs.
ParamKeys(params) == {params[i][1] : i \in DOMAIN params}
ParamGet(params, key) ==
    LET i == CHOOSE j \in DOMAIN params :
                 /\ params[j][1] = key
                 /\ \A k \in DOMAIN params : params[k][1] = key => j <= k
    IN  params[i][2]

\* What a client method has done when it first suspends or throws.
Throw(error) == [k |-> "throw", error |-> error]
Fetch(url, params, log) ==
    [k |-> "fetch", log |-> log,
     http |-> [method |-> "POST", url |-> url, body |-> params]]

\* Variant: parse_mode is appended without the `if (parseMode)` test.
SendMessageParams_Always(chat_id, text, parseMode) ==
    << <<"chat_id", ToUSVString(chat_id)>>,
       <<"text", ToUSVString(text)>>,
       <<"parse_mode", ToUSVString(parseMode)>> >>

\* sendMessage up to `await fetch(...)`.
SendMessageParams(chat_id, text, parseMode) ==
    LET params == << <<"chat_id", ToUSVString(chat_id)>>,
                     <<"text", ToUSVString(text)>> >>
    IN  IF Truthy(parseMode)
        THEN Append(params, <<"parse_mode", ToUSVString(parseMode)>>)
        ELSE params

sendMessage(url, chat_id, text, parseMode) ==
    Fetch(url \o "/sendMessage",
          SendMessageParams(chat_id, text, parseMode),
          {"Sending message to Telegram..."})

\* setMessageReaction up to `await fetch(...)`.  message_id.toString() is a
\* property read on message_id, which throws on undefined and null.
HasToString(v) == v.t \notin {"undefined", "null"}

\* Variant: the reaction is serialized bare, JSON.stringify(reaction).
SetMessageReactionParams_Bare(chat_id, message_id, reaction, is_big) ==
    LET p0 == << <<"chat_id", ToUSVString(chat_id)>>,
                 <<"message_id", ToUSVString(message_id)>> >>
        p1 == IF Truthy(reaction)
              THEN Append(p0, <<"reaction", JSONstringify(reaction)>>)
              ELSE p0
    IN  IF Truthy(is_big)
        THEN Append(p1, <<"is_big", IF Truthy(is_big) THEN "True" ELSE "False">>)
        ELSE p1

SetMessageReactionParams(chat_id, message_id, reaction, is_big) ==
    LET p0 == << <<"chat_id", ToUSVString(chat_id)>>,
                 <<"message_id", ToUSVString(message_id)>> >>
        p1 == IF Truthy(reaction)
              THEN Append(p0, <<"reaction",
                                JSONstringify(JObj(<< <<"reaction", reaction>> >>))>>)
              ELSE p0
    IN  IF Truthy(is_big)
        THEN Append(p1, <<"is_big", IF Truthy(is_big) THEN "True" ELSE "False">>)
        ELSE p1

setMessageReaction(url, chat_id, message_id, reaction, is_big) ==
    IF ~HasToString(message_id)
    THEN Throw(TypeError("Cannot read properties of " \o ToUSVString(message_id)
                         \o " (reading 'toString')"))
    ELSE Fetch(url \o "/setMessageReaction",
               SetMessageReactionParams(chat_id, message_id, reaction, is_big),
               {})

-----------------------------------------------------------------------------
(* The call-tool handler.                                                  *)

ArgumentsMissing(request) == "arguments" \notin DOMAIN request.params

\* Variant: the message does not cite the requested name.
UnknownToolMessage_NoName(name) == "Unknown Telegram tool"

UnknownToolMessage(name) == "Unknown Telegram tool: " \o name

\* Variant: the switch runs before the arguments check, so an unknown name
\* is reported even when no arguments were supplied.
TryBlock_NameFirst(url, request) ==
    IF request.params.name \notin {"telegram_send_message", "telegram_set_message_reaction"}
    THEN Throw(Error("Unknown Telegram tool: " \o request.params.name))
    ELSE IF ArgumentsMissing(request)
    THEN Throw(Error("No arguments provided"))
    ELSE LET args == request.params.arguments
         IN  IF request.params.name = "telegram_send_message"
             THEN sendMessage(url, Prop(args, "chat_id"), Prop(args, "text"),
                              Prop(args, "parse_mode"))
             ELSE setMessageReaction(url, Prop(args, "chat_id"),
                                     Prop(args, "message_id"),
                                     Prop(args, "reaction"), Prop(args, "is_big"))

\* The try block up to its first suspension or throw.
TryBlock(url, request) ==
    IF ArgumentsMissing(request)
    THEN Throw(Error("No arguments provided"))
    ELSE LET args == request.params.arguments
         IN  CASE request.params.name = "telegram_send_message" ->
                    sendMessage(url, Prop(args, "chat_id"), Prop(args, "text"),
                                Prop(args, "parse_mode"))
               [] request.params.name = "telegram_set_message_reaction" ->
                    setMessageReaction(url, Prop(args, "chat_id"),
                                       Prop(args, "message_id"),
                                       Prop(args, "reaction"), Prop(args, "is_big"))
               [] OTHER ->
                    Throw(Error(UnknownToolMessage(request.params.name)))

TextContent(text) == [content |-> << [type |-> "text", text |-> text] >>]

\* `return {content: [{type: "text", text: JSON.stringify(response)}]}`
SuccessResult(response) == TextContent(JSONstringify(response))

\* error instanceof Error ? error.message : String(error)
ErrorMessage(error) ==
    IF error.instanceofError THEN error.message ELSE ToUSVString(error.value)

\* Variant: the message is serialized without the {error: ...} wrapper.
CatchBlock_NoWrapper(error) == TextContent(JSONstringify(JStr(ErrorMessage(error))))

\* The catch block.
CatchBlock(error) ==
    TextContent(JSONstringify(JObj(<< <<"error", JStr(ErrorMessage(error))>> >>)))

\* A call as the handler leaves it at its first suspension or return.
NewCall(request, started) ==
    IF started.k = "fetch"
    THEN [request |-> request, pc |-> "awaitFetch", http |-> <<started.http>>,
          remote |-> <<>>, response |-> <<>>]
    ELSE [request |-> request, pc |-> "returned", http |-> <<>>,
          remote |-> <<>>, response |-> <<CatchBlock(started.error)>>]

\* Variant: the result is delivered to every call suspended at the same
\* point, as if the pending promise were shared between invocations.
Settle_Shared(cs, i, event, result) ==
    [j \in DOMAIN cs |->
        IF j = i
        THEN [cs[j] EXCEPT !.pc = "returned", !.remote = Append(@, event),
                           !.response = <<result>>]
        ELSE IF cs[j].pc = cs[i].pc
        THEN [cs[j] EXCEPT !.pc = "returned", !.response = <<result>>]
        ELSE cs[j]]

\* The handler's promise settles with `result` for call i.
Settle(cs, i, event, result) ==
    [cs EXCEPT ![i].pc = "returned",
               ![i].remote = Append(@, event),
               ![i].response = <<result>>]

\* Variant: a rejected fetch is issued again instead of being reported.
OnFetchRejected_Retry(cs, i, error) ==
    [cs EXCEPT ![i].http = Append(@, @[1]),
               ![i].remote = Append(@, [k |-> "fetchRejected", error |-> error])]

\* `await fetch(...)` rejects in call i: the catch block runs.
OnFetchRejected(cs, i, error) ==
    Settle(cs, i, [k |-> "fetchRejected", error |-> error], CatchBlock(error))

\* `await fetch(...)` resolves in call i: the method goes on to response.json().
OnFetchResolved(cs, i) ==
    [cs EXCEPT ![i].pc = "awaitJson",
               ![i].remote = Append(@, [k |-> "fetchResolved"])]

\* response.json() resolves in call i with the parsed body.
OnJsonResolved(cs, i, body) ==
    Settle(cs, i, [k |-> "jsonResolved", body |-> body], SuccessResult(body))

\* response.json() rejects in call i: the catch block runs.
OnJsonRejected(cs, i, error) ==
    Settle(cs, i, [k |-> "jsonRejected", error |-> error], CatchBlock(error))

-----------------------------------------------------------------------------
(* Inputs.                                                                 *)

TokenKey == "TELEGRAM_BOT_TOKEN"

NoEnv == [k \in {} |-> ""]
Environments == {NoEnv, [k \in {TokenKey} |-> ""], [k \in {TokenKey} |-> "123:ABC"]}

\* Stands for one member of REACTION_EMOJIS (module strings are ASCII).
ReactionEmoji == JObj(<< <<"type", JStr("emoji")>>, <<"emoji", JStr(":+1:")>> >>)

SendBag == [k \in {"chat_id", "text"} |->
                IF k = "chat_id" THEN JStr("@chan") ELSE JStr("hi")]
SendBags ==
    {SendBag,
     [k \in {"chat_id", "text", "parse_mode"} |->
          IF k = "parse_mode" THEN JStr("HTML") ELSE SendBag[k]],
     [k \in {"chat_id", "text", "parse_mode"} |->
          IF k = "parse_mode" THEN JStr("") ELSE SendBag[k]]}

ReactionBag(mid, keys) ==
    [k \in {"chat_id", "message_id"} \cup keys |->
        CASE k = "chat_id" -> JStr("123")
          [] k = "message_id" -> JNum(mid)
          [] k = "reaction" -> ReactionEmoji
          [] k = "is_big" -> JBool(TRUE)]
ReactionBags ==
    {ReactionBag(45, {}), ReactionBag(45, {"is_big"}),
     ReactionBag(-7, {"reaction", "is_big"}),
     [ReactionBag(45, {"is_big"}) EXCEPT !["is_big"] = JBool(FALSE)]}

CallToolRequest(name, bag) ==
    [method |-> "tools/call", params |-> [name |-> name, arguments |-> bag]]
BareRequest(name) == [method |-> "tools/call", params |-> [name |-> name]]

KnownNames == {"telegram_send_message", "telegram_set_message_reaction"}
UnknownNames == {"telegram_delete_message", "Telegram_Send_Message"}

Requests ==
    {BareRequest(n) : n \in KnownNames \cup UnknownNames}
    \cup {CallToolRequest("telegram_send_message", b) : b \in SendBags}
    \cup {CallToolRequest("telegram_set_message_reaction", b) : b \in ReactionBags}
    \* casts are unchecked: a bag of the other tool's shape, and unknown names
    \cup {CallToolRequest("telegram_set_message_reaction", SendBag)}
    \cup {CallToolRequest(n, SendBag) : n \in UnknownNames}

\* What the remote end can do to one outbound request.
FetchErrors == {TypeError("fetch failed")}
ParseErrors == {SyntaxError("Unexpected token < in JSON at position 0")}
Bodies ==
    {JObj(<< <<"ok", JBool(TRUE)>>,
             <<"result", JObj(<< <<"message_id", JNum(46)>> >>)>> >>),
     JObj(<< <<"ok", JBool(FALSE)>>, <<"error_code", JNum(400)>>,
             <<"description", JStr("Bad Request: chat not found")>> >>)}

-----------------------------------------------------------------------------
(* The state machine.                                                      *)

Init ==
    /\ env \in Environments
    /\ procState = "start"
    /\ exitCode = <<>>
    /\ stderr = {}
    /\ handlers = {}
    /\ connected = FALSE
    /\ baseUrl = ""
    /\ calls = <<>>
    /\ listResponse = <<>>

\* const botToken = process.env.TELEGRAM_BOT_TOKEN
BotToken(e) == IF TokenKey \in DOMAIN e THEN JStr(e[TokenKey]) ELSE Undefined

\* Variant: only an unset variable counts as missing, not an empty one.
TokenMissing_OnlyUnset(e) == TokenKey \notin DOMAIN e

\* if (!botToken)
TokenMissing(e) == ~Truthy(BotToken(e))

\* main() from its first line to `await server.connect(transport)`.
Main ==
    /\ procState = "start"
    /\ IF TokenMissing(env)
       THEN /\ stderr' = stderr \cup {"Please set TELEGRAM_BOT_TOKEN environment variable"}
            /\ procState' = "exited"
            /\ exitCode' = <<1>>
            /\ UNCHANGED <<handlers, connected, baseUrl>>
       ELSE /\ stderr' = stderr \cup {"Starting Telegram MCP Server...",
                                      "Connecting Telegram server to transport..."}
            /\ baseUrl' = ClientBaseUrl(BotToken(env).s)
            /\ handlers' = {"tools/call", "tools/list"}
            /\ connected' = TRUE
            /\ procState' = "connecting"
            /\ UNCHANGED exitCode
    /\ UNCHANGED <<env, calls, listResponse>>

\* server.connect resolves: main() runs to its end.
ConnectResolved ==
    /\ procState = "connecting"
    /\ procState' = "running"
    /\ stderr' = stderr \cup {"Telegram MCP Server running on stdio"}
    /\ UNCHANGED <<env, exitCode, handlers, connected, baseUrl, calls, listResponse>>

\* server.connect rejects: main().catch runs.
ConnectRejected ==
    /\ procState = "connecting"
    /\ procState' = "exited"
    /\ exitCode' = <<1>>
    /\ stderr' = stderr \cup {"Fatal error in main():"}
    /\ UNCHANGED <<env, handlers, connected, baseUrl, calls, listResponse>>

\* A call-tool request arrives: the handler runs to its first suspension or
\* to its return.
CallTool(request) ==
    /\ procState = "running"
    /\ "tools/call" \in handlers
    /\ Len(calls) < MaxCalls
    /\ LET started == TryBlock(baseUrl, request)
       IN  /\ calls' = Append(calls, NewCall(request, started))
           /\ stderr' = stderr \cup {"Received CallToolRequest:"}
                        \cup (IF started.k = "fetch" THEN started.log
                              ELSE {"Error executing tool:"})
    /\ UNCHANGED <<env, procState, exitCode, handlers, connected, baseUrl, listResponse>>

FetchRejected(i, error) ==
    /\ procState = "running"
    /\ calls[i].pc = "awaitFetch"
    /\ calls' = OnFetchRejected(calls, i, error)
    /\ stderr' = stderr \cup {"Error executing tool:"}
    /\ UNCHANGED <<env, procState, exitCode, handlers, connected, baseUrl, listResponse>>

FetchResolved(i) ==
    /\ procState = "running"
    /\ calls[i].pc = "awaitFetch"
    /\ calls' = OnFetchResolved(calls, i)
    /\ stderr' = stderr \cup
                 (IF calls[i].request.params.name = "telegram_send_message"
                  THEN {"Telegram response:"} ELSE {})
    /\ UNCHANGED <<env, procState, exitCode, handlers, connected, baseUrl, listResponse>>

JsonResolved(i, body) ==
    /\ procState = "running"
    /\ calls[i].pc = "awaitJson"
    /\ calls' = OnJsonResolved(calls, i, body)
    /\ UNCHANGED <<env, procState, exitCode, stderr, handlers, connected, baseUrl,
                   listResponse>>

JsonRejected(i, error) ==
    /\ procState = "running"
    /\ calls[i].pc = "awaitJson"
    /\ calls' = OnJsonRejected(calls, i, error)
    /\ stderr' = stderr \cup {"Error executing tool:"}
    /\ UNCHANGED <<env, procState, exitCode, handlers, connected, baseUrl, listResponse>>

\* A list-tools request arrives and is answered.
ListTools ==
    /\ procState = "running"
    /\ "tools/list" \in handlers
    /\ listResponse' = <<ListToolsResult>>
    /\ UNCHANGED <<env, procState, exitCode, stderr, handlers, connected, baseUrl, calls>>

Next ==
    \/ Main
    \/ ConnectResolved
    \/ ConnectRejected
    \/ \E request \in Requests : CallTool(request)
    \/ \E i \in DOMAIN calls : \E error \in FetchErrors : FetchRejected(i, error)
    \/ \E i \in DOMAIN calls : FetchResolved(i)
    \/ \E i \in DOMAIN calls : \E body \in Bodies : JsonResolved(i, body)
    \/ \E i \in DOMAIN calls : \E error \in ParseErrors : JsonRejected(i, error)
    \/ ListTools

Spec == Init /\ [][Next]_vars

TypeOK ==
    /\ procState \in {"start", "connecting", "running", "exited"}
    /\ Len(calls) <= MaxCalls
    /\ \A i \in DOMAIN calls : calls[i].pc \in {"awaitFetch", "awaitJson", "returned"}

-----------------------------------------------------------------------------
(* Properties.                                                             *)

Name(i) == calls[i].request.params.name
HasArgs(i) == "arguments" \in DOMAIN calls[i].request.params
Args(i) == calls[i].request.params.arguments
IsReturned(i) == calls[i].pc = "returned"
Text(i) == calls[i].response[1].content[1].text
Body(i) == calls[i].http[1].body

\* The text of an error object whose message needs no escaping.
ErrorText(message) == "{\"error\":\"" \o message \o "\"}"

\* The serialization of each remote body of the model, written out.
BodyText(body) ==
    IF body.f[1][2].b
    THEN "{\"ok\":true,\"result\":{\"message_id\":46}}"
    ELSE "{\"ok\":false,\"error_code\":400,\"description\":\"Bad Request: chat not found\"}"

OneTextBlock(r) ==
    /\ DOMAIN r = {"content"}
    /\ Len(r.content) = 1
    /\ DOMAIN r.content[1] = {"type", "text"}
    /\ r.content[1].type = "text"

\* The last thing the remote end did to call i.
LastRemote(i) == calls[i].remote[Len(calls[i].remote)]

\* The call's payload construction throws: message_id has no toString.
MessageIdMissing(i) ==
    /\ HasArgs(i)
    /\ Name(i) = "telegram_set_message_reaction"
    /\ "message_id" \notin DOMAIN Args(i)

\* C1: every call-tool request whose handling has finished has an envelope of
\* exactly one text block, and the process is still running; the block is the
\* serialization of the parsed remote body when the remote call returned one
\* (ok=false included), and of {error: <message>} when something was thrown:
\* missing arguments, unknown name, payload construction, network, parsing.
C1_UniformEnvelope ==
    \A i \in DOMAIN calls :
        /\ procState = "running" /\ exitCode = <<>>
        /\ Len(calls[i].response) = (IF IsReturned(i) THEN 1 ELSE 0)
        /\ IsReturned(i) =>
             /\ OneTextBlock(calls[i].response[1])
             /\ IF ~HasArgs(i) THEN Text(i) = ErrorText("No arguments provided")
                ELSE IF Name(i) \notin KnownNames
                  THEN Text(i) = ErrorText("Unknown Telegram tool: " \o Name(i))
                ELSE IF MessageIdMissing(i)
                  THEN Text(i) = ErrorText(
                           "Cannot read properties of undefined (reading 'toString')")
                ELSE IF LastRemote(i).k = "jsonResolved"
                  THEN Text(i) = BodyText(LastRemote(i).body)
                ELSE /\ LastRemote(i).k \in {"fetchRejected", "jsonRejected"}
                     /\ Text(i) = ErrorText(LastRemote(i).error.message)

C1_Witness ==
    /\ Len(calls) = 2
    /\ IsReturned(1) /\ calls[1].remote # <<>> /\ LastRemote(1).k = "jsonResolved"
    /\ ~LastRemote(1).body.f[1][2].b
    /\ IsReturned(2) /\ calls[2].remote # <<>> /\ LastRemote(2).k = "jsonRejected"

\* C2: a call-tool request without an argument bag, whatever its tool name,
\* is answered with the error envelope that contains "No arguments provided",
\* and issues no outbound HTTP request.
C2_NoArguments ==
    \A i \in DOMAIN calls :
        ~HasArgs(i) =>
            /\ IsReturned(i)
            /\ OneTextBlock(calls[i].response[1])
            /\ Text(i) = ErrorText("No arguments provided")
            /\ calls[i].http = <<>>

C2_Witness ==
    /\ Len(calls) = 2
    /\ ~HasArgs(1) /\ Name(1) \in KnownNames /\ IsReturned(1)
    /\ ~HasArgs(2) /\ Name(2) \notin KnownNames /\ IsReturned(2)

UnknownToolAnswer(i) ==
    /\ IsReturned(i)
    /\ calls[i].response[1] =
         [content |-> << [type |-> "text",
                          text |-> "{\"error\":\"Unknown Telegram tool: "
                                   \o Name(i) \o "\"}"] >>]
    /\ calls[i].http = <<>>

\* C3 as stated: every call-tool request whose name is not one of the two tool
\* names is answered {"error":"Unknown Telegram tool: <name>"} without an
\* outbound HTTP request.
C3_UnknownToolAlways ==
    \A i \in DOMAIN calls : Name(i) \notin KnownNames => UnknownToolAnswer(i)

\* C3 (amended): every call-tool request that carries an argument bag and
\* whose name is not one of the two tool names (exact match) is answered
\* {"error":"Unknown Telegram tool: <name>"} without an outbound HTTP request.
C3_UnknownToolWithArguments ==
    \A i \in DOMAIN calls :
        (HasArgs(i) /\ Name(i) \notin KnownNames) => UnknownToolAnswer(i)

C3_Witness ==
    \E i \in DOMAIN calls :
        HasArgs(i) /\ Name(i) = "Telegram_Send_Message" /\ IsReturned(i)

\* A set-reaction call that reached its outbound request.
ReactionCall(i) ==
    /\ HasArgs(i)
    /\ Name(i) = "telegram_set_message_reaction"
    /\ calls[i].http # <<>>

\* C4: for every set-reaction call the payload carries is_big if and only if
\* is_big was supplied, with the value "True" for true and "False" for false.
C4_IsBigIffSupplied ==
    \A i \in DOMAIN calls :
        ReactionCall(i) =>
            /\ "is_big" \in ParamKeys(Body(i)) <=> "is_big" \in DOMAIN Args(i)
            /\ "is_big" \in DOMAIN Args(i) =>
                 ParamGet(Body(i), "is_big") =
                     (IF Args(i)["is_big"].b THEN "True" ELSE "False")

IsString(bag, key) == key \in DOMAIN bag /\ bag[key].t = "str"

ValidSendArguments(bag) ==
    /\ DOMAIN bag \subseteq {"chat_id", "text", "parse_mode"}
    /\ IsString(bag, "chat_id")
    /\ IsString(bag, "text")
    /\ "parse_mode" \in DOMAIN bag => bag["parse_mode"] \in {JStr("MarkdownV2"), JStr("HTML")}

\* The base URL the credential of the environment gives.
CredentialUrl == "https://api.telegram.org/bot" \o env[TokenKey]

\* C5: for valid send-message arguments the invocation issues one HTTP POST
\* to the sendMessage endpoint under the credential's base URL, with a payload
\* of exactly chat_id and text as supplied, plus parse_mode as supplied if
\* and only if it was provided.
C5_SendMessagePayload ==
    \A i \in DOMAIN calls :
        (HasArgs(i) /\ Name(i) = "telegram_send_message" /\ ValidSendArguments(Args(i))) =>
            /\ Len(calls[i].http) = 1
            /\ calls[i].http[1].method = "POST"
            /\ calls[i].http[1].url = CredentialUrl \o "/sendMessage"
            /\ ParamKeys(Body(i)) = DOMAIN Args(i)
            /\ Len(Body(i)) = Cardinality(DOMAIN Args(i))
            /\ \A k \in DOMAIN Args(i) : ParamGet(Body(i), k) = Args(i)[k].s

C5_Witness ==
    /\ Len(calls) = 2
    /\ Name(1) = "telegram_send_message" /\ HasArgs(1)
    /\ DOMAIN Args(1) = {"chat_id", "text"} /\ IsReturned(1)
    /\ Name(2) = "telegram_send_message" /\ HasArgs(2)
    /\ "parse_mode" \in DOMAIN Args(2) /\ ValidSendArguments(Args(2))

ValidReactionArguments(bag) ==
    /\ DOMAIN bag \subseteq {"chat_id", "message_id", "reaction", "is_big"}
    /\ IsString(bag, "chat_id")
    /\ "message_id" \in DOMAIN bag /\ bag["message_id"].t = "num"
    /\ "reaction" \in DOMAIN bag =>
          /\ bag["reaction"].t = "obj"
          /\ Len(bag["reaction"].f) = 2
          /\ bag["reaction"].f[1] = <<"type", JStr("emoji")>>
          /\ bag["reaction"].f[2][1] = "emoji"
          /\ bag["reaction"].f[2][2].t = "str"
    /\ "is_big" \in DOMAIN bag => bag["is_big"].t = "bool"

\* The integer a decimal numeral denotes, -1 when s is not a plain numeral.
RECURSIVE NumeralValue(_)
NumeralValue(s) ==
    IF s = "" THEN -1
    ELSE LET c == SubSeq(s, Len(s), Len(s))
             d == CASE c = "0" -> 0 [] c = "1" -> 1 [] c = "2" -> 2 [] c = "3" -> 3
                    [] c = "4" -> 4 [] c = "5" -> 5 [] c = "6" -> 6 [] c = "7" -> 7
                    [] c = "8" -> 8 [] c = "9" -> 9 [] OTHER -> -1
             r == SubSeq(s, 1, Len(s) - 1)
         IN  IF d = -1 THEN -1
             ELSE IF r = "" THEN d
             ELSE IF NumeralValue(r) <= 0 THEN -1
             ELSE 10 * NumeralValue(r) + d

IsDecimalOf(s, n) ==
    IF n < 0
    THEN SubSeq(s, 1, 1) = "-" /\ NumeralValue(SubSeq(s, 2, Len(s))) = 0 - n
    ELSE NumeralValue(s) = n

\* C6: for valid set-reaction arguments the invocation issues one HTTP POST
\* to the setMessageReaction endpoint; the payload carries chat_id as
\* supplied, message_id as the decimal string of the supplied integer, and a
\* reaction field if and only if a reaction was supplied, whose value is the
\* serialization of {"reaction": {type: "emoji", emoji: <value>}}.
C6_ReactionPayload ==
    \A i \in DOMAIN calls :
        (HasArgs(i) /\ Name(i) = "telegram_set_message_reaction"
         /\ ValidReactionArguments(Args(i))) =>
            /\ Len(calls[i].http) = 1
            /\ calls[i].http[1].method = "POST"
            /\ calls[i].http[1].url = CredentialUrl \o "/setMessageReaction"
            /\ ParamGet(Body(i), "chat_id") = Args(i)["chat_id"].s
            /\ IsDecimalOf(ParamGet(Body(i), "message_id"), Args(i)["message_id"].n)
            /\ "reaction" \in ParamKeys(Body(i)) <=> "reaction" \in DOMAIN Args(i)
            /\ "reaction" \in DOMAIN Args(i) =>
                 ParamGet(Body(i), "reaction") =
                     "{\"reaction\":{\"type\":\"emoji\",\"emoji\":\""
                     \o Args(i)["reaction"].f[2][2].s \o "\"}}"
            /\ Cardinality({j \in DOMAIN Body(i) :
                               Body(i)[j][1] \in {"chat_id", "message_id", "reaction"}})
                 = Cardinality(DOMAIN Args(i) \ {"is_big"})

C6_Witness ==
    /\ Len(calls) = 2
    /\ Name(1) = "telegram_set_message_reaction" /\ HasArgs(1)
    /\ ValidReactionArguments(Args(1)) /\ "reaction" \in DOMAIN Args(1)
    /\ Args(1)["message_id"].n < 0
    /\ Name(2) = "telegram_set_message_reaction" /\ HasArgs(2)
    /\ ValidReactionArguments(Args(2)) /\ "reaction" \notin DOMAIN Args(2)
    /\ Args(2)["message_id"].n = 45

\* The remote call of call i failed: a network error or a parse error.
RemoteFailed(i) ==
    /\ calls[i].remote # <<>>
    /\ LastRemote(i).k \in {"fetchRejected", "jsonRejected"}

\* The handler throws before any outbound request is built.
ThrowsBeforeFetch(i) ==
    \/ ~HasArgs(i)
    \/ Name(i) \notin KnownNames
    \/ MessageIdMissing(i)

\* C7: no retries.  Every invocation issues at most one outbound HTTP request,
\* and none when the arguments are missing, the name is unknown or building
\* the payload throws; a remote call that failed is not reissued and ends its
\* own invocation with an error block carrying the underlying message; every
\* other invocation, later ones included, has still issued its own request
\* and is not ended by that failure.
C7_NoRetries ==
    \A i \in DOMAIN calls :
        /\ Len(calls[i].http) = (IF ThrowsBeforeFetch(i) THEN 0 ELSE 1)
        /\ RemoteFailed(i) =>
             /\ IsReturned(i)
             /\ Text(i) = ErrorText(LastRemote(i).error.message)
        /\ (~ThrowsBeforeFetch(i) /\ IsReturned(i)) =>
             /\ calls[i].remote # <<>>
             /\ LastRemote(i).k \in {"fetchRejected", "jsonRejected", "jsonResolved"}

C7_Witness ==
    /\ Len(calls) = 2
    /\ RemoteFailed(1) /\ LastRemote(1).k = "fetchRejected"
    /\ Len(calls[1].http) = 1
    /\ calls[2].pc = "awaitFetch" /\ Len(calls[2].http) = 1

CredentialAbsent == TokenKey \notin DOMAIN env \/ env[TokenKey] = ""

\* C8: with the credential variable absent or empty, startup emits the
\* diagnostic and exits with a non-zero status with no handler registered and
\* the transport not connected; no list-tools or call-tool request is ever
\* answered and no outbound HTTP request is ever issued.
C8_MissingCredentialIsFatal ==
    (CredentialAbsent /\ procState # "start") =>
        /\ procState = "exited"
        /\ Len(exitCode) = 1 /\ exitCode[1] # 0
        /\ "Please set TELEGRAM_BOT_TOKEN environment variable" \in stderr
        /\ handlers = {}
        /\ ~connected
        /\ calls = <<>>
        /\ listResponse = <<>>

C8_Witness ==
    /\ TokenKey \in DOMAIN env /\ env[TokenKey] = ""
    /\ procState = "exited"

\* C9: a list-tools request is answered with exactly the two descriptors
\* telegram_send_message and telegram_set_message_reaction, the same content
\* whatever call-tool requests have succeeded, failed or are in flight;
\* answering it issues no outbound HTTP request and touches no call, and no
\* call-tool step changes what list-tools has answered.
C9_ListToolsFixed ==
    [][ /\ listResponse' # <<>> =>
             /\ Len(listResponse'[1].tools) = 2
             /\ listResponse'[1].tools[1].name = "telegram_send_message"
             /\ listResponse'[1].tools[2].name = "telegram_set_message_reaction"
             /\ listResponse'[1].tools[1].inputSchema.required = <<"chat_id", "text">>
             /\ listResponse'[1].tools[2].inputSchema.required = <<"chat_id", "message_id">>
             /\ listResponse # <<>> => listResponse' = listResponse
        /\ listResponse' # listResponse => calls' = calls
        /\ calls' # calls => listResponse' = listResponse ]_vars

C9_Witness ==
    /\ listResponse # <<>>
    /\ Len(calls) = 2
    /\ calls[1].pc = "awaitFetch"
    /\ RemoteFailed(2)

\* C10: calls in flight are independent.  While a call is suspended on its
\* outbound request the server can receive and answer further requests; a
\* call has no response until its own remote request completes; and the
\* response and the outbound request of a call are a function of its own
\* request and its own remote outcome.
C10_IndependentCalls ==
    \A i \in DOMAIN calls :
          /\ ~IsReturned(i) => calls[i].response = <<>>
          /\ (IsReturned(i) /\ calls[i].http # <<>>) =>
                /\ calls[i].remote # <<>>
                /\ LastRemote(i).k \in {"fetchRejected", "jsonRejected", "jsonResolved"}
          /\ \A j \in DOMAIN calls :
                (calls[i].request = calls[j].request /\ calls[i].remote = calls[j].remote)
                    => calls[i] = calls[j]

C10_Witness ==
    /\ Len(calls) = 2
    /\ calls[1].pc = "awaitFetch"
    /\ IsReturned(2) /\ calls[2].remote # <<>> /\ LastRemote(2).k = "jsonResolved"
    /\ calls[1].request = calls[2].request

====
